---- MODULE Spec2Model ----
(***************************************************************************)
(* UML model comparator (compare.py).                                      *)
(*                                                                         *)
(* A registry (the Python dict `models`, which keeps insertion order) is   *)
(* a sequence of records [name, classes, relationships].  A relationship   *)
(* is the tuple <<from, to, label>>.  A presence map (a defaultdict(list)) *)
(* is a function from the keys inserted so far to sequences of model       *)
(* names.  Metrics are exact fractions [n, d] with d > 0; the weights of   *)
(* total_score are kept in hundredths.                                     *)
(***************************************************************************)
EXTENDS Integers, Sequences, FiniteSets, TLC

\* ------------------------------------------------------------------ bounds
MaxModels == 3
MaxEntries == 2

\* ------------------------------------------------------------- input sets
ModelNames == {"Claude", "Gemini", "Groq", "Other"}
Classes == {"X", "Y"}
R1 == <<"X", "Y", "uses">>
Relationships == {R1}

\* file_paths of the main procedure, in iteration order
file_paths ==
    << [name |-> "Claude", path |-> "claude.json"],
       [name |-> "Gemini", path |-> "gemini.json"],
       [name |-> "Groq", path |-> "groq.json"] >>

Paths == {file_paths[i].path : i \in 1..Len(file_paths)}

VARIABLES
    files,              \* the file system: path -> Missing or a parsed JSON object
    pc,                 \* position of the run
    models,             \* the registry, in insertion order
    comparison,         \* [classes, relationships]: the two presence maps
    all_classes,
    all_relationships,
    scores,             \* sequence of [name, score], in insertion order
    metrics,            \* sequence of metric records, in insertion order
    best_model,
    error,              \* the exception that ended the run, or "none"
    called,             \* the functions entered so far
    idx,                \* position of the loading loop in file_paths
    csv                 \* the report file: [status, best], status being
                        \* "none", "partial" or "complete"

vars == <<files, pc, models, comparison, all_classes, all_relationships,
          scores, metrics, best_model, error, called, idx, csv>>

\* ------------------------------------------------------------- fractions
RECURSIVE GCD(_, _)
GCD(a, b) == IF b = 0 THEN a ELSE GCD(b, a % b)

Norm(n, d) == LET g == GCD(n, d) IN [n |-> n \div g, d |-> d \div g]

Zero == [n |-> 0, d |-> 1]

Frac(n, d) == Norm(n, d)

FracAdd(a, b) == Norm(a.n * b.d + b.n * a.d, a.d * b.d)

\* w hundredths of a
Weighted(w, a) == Norm(w * a.n, 100 * a.d)

FracLess(a, b) == a.n * b.d < b.n * a.d
FracLeq(a, b) == a.n * b.d <= b.n * a.d

\* ------------------------------------------------------------ defaultdict
EmptyDict == <<>>

DictPrepend(d, k, v) ==
    IF k \in DOMAIN d THEN [d EXCEPT ![k] = <<v>> \o @]
    ELSE d @@ (k :> <<v>>)

\* d[k].append(v) on a defaultdict(list)
DictAppend(d, k, v) ==
    IF k \in DOMAIN d THEN [d EXCEPT ![k] = Append(@, v)]
    ELSE d @@ (k :> <<v>>)

\* the value read by d[k] on a defaultdict(list)
DictGet(d, k) == IF k \in DOMAIN d THEN d[k] ELSE <<>>

\* the dict after the reads d[k] for every k in keys: a missing key is inserted
DictTouch(d, keys) ==
    [k \in (DOMAIN d) \cup keys |-> IF k \in DOMAIN d THEN d[k] ELSE <<>>]

\* --------------------------------------------------- load_model_from_json
RelKeys == {"from", "to", "label"}

Range(s) == {s[i] : i \in 1..Len(s)}

\* data.get(key, []) on the parsed JSON object
JsonGet(data, key) ==
    IF key = "classes"
    THEN (IF data.has_classes THEN data.classes ELSE <<>>)
    ELSE (IF data.has_relationships THEN data.relationships ELSE <<>>)

\* (rel["from"], rel["to"], rel["label"]): a missing key raises KeyError
RelTuple(rel) ==
    IF RelKeys \subseteq rel.keys
    THEN [error |-> "none", value |-> <<rel.from, rel.to, rel.label>>]
    ELSE [error |-> "KeyError", value |-> <<>>]

RECURSIVE LoadRelationshipsSkipping(_, _, _)
LoadRelationshipsSkipping(entries, i, acc) ==
    IF i > Len(entries) THEN [error |-> "none", relationships |-> acc]
    ELSE LET t == RelTuple(entries[i]) IN
         LoadRelationshipsSkipping(entries, i + 1,
            IF t.error # "none" THEN acc ELSE acc \cup {t.value})

\* the loop of lines 12-13 from entry i on, acc being the set built so far
RECURSIVE LoadRelationships(_, _, _)
LoadRelationships(entries, i, acc) ==
    IF i > Len(entries) THEN [error |-> "none", relationships |-> acc]
    ELSE LET t == RelTuple(entries[i]) IN
         IF t.error # "none" THEN [error |-> t.error, relationships |-> acc]
         ELSE LoadRelationships(entries, i + 1, acc \cup {t.value})

\* the result of load_model_from_json: error # "none" means it raised and
\* returned nothing
load_model_from_json(data) ==
    LET classes == Range(JsonGet(data, "classes"))
        r == LoadRelationships(JsonGet(data, "relationships"), 1, {})
    IN [error |-> r.error, classes |-> classes, relationships |-> r.relationships]

\* models[model_name] = fact_set on an insertion-ordered dict
RegistrySet(reg, name, fs) ==
    LET entry == [name |-> name, classes |-> fs.classes,
                  relationships |-> fs.relationships]
    IN IF \E i \in 1..Len(reg) : reg[i].name = name
       THEN [i \in 1..Len(reg) |-> IF reg[i].name = name THEN entry ELSE reg[i]]
       ELSE Append(reg, entry)

\* --------------------------------------------------------- compare_models
RECURSIVE AllFactsButLast(_, _, _)
AllFactsButLast(reg, field, i) ==
    IF i >= Len(reg) THEN {}
    ELSE reg[i][field] \cup AllFactsButLast(reg, field, i + 1)

\* lines 22-24: the union of one field over the registry
RECURSIVE AllFacts(_, _, _)
AllFacts(reg, field, i) ==
    IF i > Len(reg) THEN {}
    ELSE reg[i][field] \cup AllFacts(reg, field, i + 1)

RECURSIVE PresenceOfFactSkipFirst(_, _, _, _, _)
PresenceOfFactSkipFirst(d, reg, field, fact, i) ==
    IF i > Len(reg) THEN d
    ELSE PresenceOfFactSkipFirst(
            IF i > 1 /\ fact \in reg[i][field]
            THEN DictAppend(d, fact, reg[i].name) ELSE d,
            reg, field, fact, i + 1)

\* the inner loop (lines 28-30, 34-36) for one fact, from model i on
RECURSIVE PresenceOfFact(_, _, _, _, _)
PresenceOfFact(d, reg, field, fact, i) ==
    IF i > Len(reg) THEN d
    ELSE PresenceOfFact(
            IF fact \in reg[i][field] THEN DictAppend(d, fact, reg[i].name) ELSE d,
            reg, field, fact, i + 1)

\* the outer loop (lines 27, 33) over the facts still to visit
RECURSIVE PresenceIndex(_, _, _, _)
PresenceIndex(d, reg, field, facts) ==
    IF facts = {} THEN d
    ELSE LET f == CHOOSE x \in facts : TRUE IN
         PresenceIndex(PresenceOfFact(d, reg, field, f, 1), reg, field, facts \ {f})

compare_models(reg) ==
    LET ac == AllFacts(reg, "classes", 1)
        ar == AllFacts(reg, "relationships", 1)
    IN [comparison |->
            [classes |-> PresenceIndex(EmptyDict, reg, "classes", ac),
             relationships |-> PresenceIndex(EmptyDict, reg, "relationships", ar)],
        all_classes |-> ac,
        all_relationships |-> ar]

\* -------------------------------------------------------- evaluate_models
W_RECALL_CLASSES == 25
W_PRECISION_CLASSES == 25
W_RECALL_RELS == 25
W_PRECISION_RELS == 15
W_OVERLAP == 10

CorroboratedAtLeastOnce(presence_list) == Len(presence_list) >= 1

CorroboratedExactlyTwo(presence_list) == Len(presence_list) = 2

\* len(presence_list) > 1 (lines 52, 58)
Corroborated(presence_list) == Len(presence_list) > 1

\* sum([1 for f in facts if len(presence[f]) > 1])
OverlapCount(presence, facts) ==
    Cardinality({f \in facts : Corroborated(DictGet(presence, f))})

\* `n / d if guard else 0`: the value, and whether the division raises
GuardedDiv(n, d, guard) ==
    IF ~guard THEN [error |-> "none", value |-> Zero]
    ELSE IF d = 0 THEN [error |-> "ZeroDivisionError", value |-> Zero]
    ELSE [error |-> "none", value |-> Frac(n, d)]

PrecisionUnguarded(facts) == TRUE

RecallGuard(all_facts) == all_facts # {}
PrecisionGuard(facts) == facts # {}

RecallInverted(facts, all_facts) ==
    GuardedDiv(Cardinality(all_facts), Cardinality(facts), facts # {})

\* lines 50, 56
Recall(facts, all_facts) ==
    GuardedDiv(Cardinality(facts), Cardinality(all_facts), RecallGuard(all_facts))

\* lines 53, 59
Precision(overlap_count, facts) ==
    GuardedDiv(overlap_count, Cardinality(facts), PrecisionGuard(facts))
OverlapGuard(m) == m.classes # {} \/ m.relationships # {}

\* lines 50-81 for one model
ModelMetrics(m, ac, ar, cmp) ==
    LET class_overlap_count == OverlapCount(cmp.classes, m.classes)
        rel_overlap_count == OverlapCount(cmp.relationships, m.relationships)
        rc == Recall(m.classes, ac)
        pcl == Precision(class_overlap_count, m.classes)
        rr == Recall(m.relationships, ar)
        pr == Precision(rel_overlap_count, m.relationships)
        ov == GuardedDiv(class_overlap_count + rel_overlap_count,
                         Cardinality(m.classes) + Cardinality(m.relationships),
                         OverlapGuard(m))
        errs == {x.error : x \in {rc, pcl, rr, pr, ov}} \ {"none"}
        total == FracAdd(Weighted(W_RECALL_CLASSES, rc.value),
                 FracAdd(Weighted(W_PRECISION_CLASSES, pcl.value),
                 FracAdd(Weighted(W_RECALL_RELS, rr.value),
                 FracAdd(Weighted(W_PRECISION_RELS, pr.value),
                         Weighted(W_OVERLAP, ov.value)))))
    IN [error |-> IF errs = {} THEN "none" ELSE CHOOSE e \in errs : TRUE,
        name |-> m.name,
        recall_classes |-> rc.value,
        precision_classes |-> pcl.value,
        recall_relationships |-> rr.value,
        precision_relationships |-> pr.value,
        overlap_score |-> ov.value,
        total_score |-> total]

\* the comparison after the defaultdict reads of lines 52 and 58 for model m
TouchedBy(m, cmp) ==
    [classes |-> DictTouch(cmp.classes, m.classes),
     relationships |-> DictTouch(cmp.relationships, m.relationships)]

\* the loop of line 48 from model i on; st = [error, scores, metrics, comparison]
RECURSIVE EvaluateFrom(_, _, _, _, _)
EvaluateFrom(reg, ac, ar, i, st) ==
    IF i > Len(reg) \/ st.error # "none" THEN st
    ELSE LET r == ModelMetrics(reg[i], ac, ar, st.comparison)
             cmp2 == TouchedBy(reg[i], st.comparison)
         IN IF r.error # "none"
            THEN [st EXCEPT !.error = r.error, !.comparison = cmp2]
            ELSE EvaluateFrom(reg, ac, ar, i + 1,
                    [error |-> "none",
                     scores |-> Append(st.scores,
                                  [name |-> r.name, score |-> r.total_score]),
                     metrics |-> Append(st.metrics, r),
                     comparison |-> cmp2])

evaluate_models(reg, ac, ar, cmp) ==
    EvaluateFrom(reg, ac, ar, 1,
        [error |-> "none", scores |-> <<>>, metrics |-> <<>>, comparison |-> cmp])

\* ------------------------------------------- max(scores, key=scores.get)
RECURSIVE MaxFromLastWins(_, _, _)
MaxFromLastWins(sc, i, best) ==
    IF i > Len(sc) THEN best
    ELSE MaxFromLastWins(sc, i + 1,
            IF FracLeq(sc[best].score, sc[i].score) THEN i ELSE best)

\* the scan of max from position i on: the first maximal element wins
RECURSIVE MaxFrom(_, _, _)
MaxFrom(sc, i, best) ==
    IF i > Len(sc) THEN best
    ELSE MaxFrom(sc, i + 1, IF FracLess(sc[best].score, sc[i].score) THEN i ELSE best)

BestOf(sc) ==
    IF Len(sc) = 0 THEN [error |-> "ValueError", name |-> ""]
    ELSE [error |-> "none", name |-> sc[MaxFrom(sc, 2, 1)].name]

\* ------------------------------------------------------------ input files
\* a relationship entry of a file: an object holding the keys in `keys`
Entry(keys) == [keys |-> keys, from |-> R1[1], to |-> R1[2], label |-> R1[3]]

Entries == {Entry(RelKeys)} \cup {Entry(RelKeys \ {k}) : k \in RelKeys}

EntryLists == UNION {[1..n -> Entries] : n \in 0..MaxEntries}

EmptyJson == [has_classes |-> FALSE, classes |-> <<>>,
              has_relationships |-> FALSE, relationships |-> <<>>]

\* the "classes" key: absent, or a list (with a duplicate)
ClassFields == {[has |-> FALSE, list |-> <<>>],
                [has |-> TRUE, list |-> <<"X", "Y", "X">>]}

\* the "relationships" key: absent, or a list of entries
RelFields == {[has |-> FALSE, list |-> <<>>]}
             \cup {[has |-> TRUE, list |-> rl] : rl \in EntryLists}

JsonObjects ==
    {[has_classes |-> c.has, classes |-> c.list,
      has_relationships |-> r.has, relationships |-> r.list] :
        c \in ClassFields, r \in RelFields}

MissingFile == [exists |-> FALSE, data |-> EmptyJson]

FileStates == {MissingFile} \cup {[exists |-> TRUE, data |-> d] : d \in JsonObjects}

WellFormed(f) ==
    f.exists /\ \A i \in 1..Len(JsonGet(f.data, "relationships")) :
                    RelKeys \subseteq JsonGet(f.data, "relationships")[i].keys

\* ------------------------------------------------------------------ state
EmptyComparison == [classes |-> EmptyDict, relationships |-> EmptyDict]

InitRest ==
    /\ models = <<>>
    /\ comparison = EmptyComparison
    /\ all_classes = {}
    /\ all_relationships = {}
    /\ scores = <<>>
    /\ metrics = <<>>
    /\ best_model = ""
    /\ error = "none"
    /\ called = {}
    /\ csv = [status |-> "none", best |-> ""]

\* the registry handed to compare_models is an input: it is built one model
\* at a time, under fresh names
Init ==
    /\ files = [p \in Paths |-> MissingFile]
    /\ pc = "compare"
    /\ idx = 0
    /\ InitRest

\* the main procedure: the three configured files are an input
InitMain ==
    /\ files \in [Paths -> FileStates]
    /\ pc = "load"
    /\ idx = 1
    /\ InitRest

FactSets == [classes : SUBSET Classes, relationships : SUBSET Relationships]

\* a caller adds a model to the registry before the comparison
AddModel ==
    /\ pc = "compare"
    /\ idx = 0
    /\ Len(models) < MaxModels
    /\ \E name \in ModelNames, fs \in FactSets :
          /\ \A i \in 1..Len(models) : models[i].name # name
          /\ models' = RegistrySet(models, name, fs)
    /\ UNCHANGED <<files, pc, comparison, all_classes, all_relationships,
                   scores, metrics, best_model, error, called, idx, csv>>

\* one iteration of the loading loop (lines 131-135)
LoadNext ==
    /\ pc = "load"
    /\ LET fp == file_paths[idx]
           f == files[fp.path]
           r == load_model_from_json(f.data)
       IN IF ~f.exists
          THEN /\ pc' = "exit"
               /\ UNCHANGED <<models, error, called, idx>>
          ELSE IF r.error # "none"
          THEN /\ pc' = "crash"
               /\ error' = r.error
               /\ called' = called \cup {"load_model_from_json"}
               /\ UNCHANGED <<models, idx>>
          ELSE /\ models' = RegistrySet(models, fp.name, r)
               /\ called' = called \cup {"load_model_from_json"}
               /\ idx' = idx + 1
               /\ pc' = IF idx = Len(file_paths) THEN "compare" ELSE "load"
               /\ UNCHANGED error
    /\ UNCHANGED <<files, comparison, all_classes, all_relationships,
                   scores, metrics, best_model, csv>>

\* line 137
CompareModels ==
    /\ pc = "compare"
    /\ LET r == compare_models(models) IN
          /\ comparison' = r.comparison
          /\ all_classes' = r.all_classes
          /\ all_relationships' = r.all_relationships
    /\ called' = called \cup {"compare_models"}
    /\ pc' = "evaluate"
    /\ UNCHANGED <<files, models, scores, metrics, best_model, error, idx, csv>>

\* line 147
EvaluateModels ==
    /\ pc = "evaluate"
    /\ LET r == evaluate_models(models, all_classes, all_relationships, comparison) IN
          /\ comparison' = r.comparison
          /\ error' = r.error
          /\ IF r.error = "none"
             THEN scores' = r.scores /\ metrics' = r.metrics /\ pc' = "best"
             ELSE UNCHANGED <<scores, metrics>> /\ pc' = "crash"
    /\ called' = called \cup {"evaluate_models"}
    /\ UNCHANGED <<files, models, all_classes, all_relationships, best_model, idx, csv>>

\* line 153
BestModel ==
    /\ pc = "best"
    /\ LET r == BestOf(scores) IN
          /\ error' = r.error
          /\ best_model' = r.name
          /\ pc' = IF r.error = "none" THEN "save" ELSE "crash"
    /\ UNCHANGED <<files, models, comparison, all_classes, all_relationships,
                   scores, metrics, called, idx, csv>>

\* save_results_to_csv (lines 86-118): the rows are written, then the best
\* model is looked up; an exception there leaves the rows written so far
SaveResults(at) ==
    /\ pc = at
    /\ LET r == BestOf(scores) IN
          /\ error' = r.error
          /\ csv' = [status |-> IF r.error = "none" THEN "complete" ELSE "partial",
                      best |-> r.name]
          /\ pc' = IF r.error = "none" THEN "done" ELSE "crash"
    /\ called' = called \cup {"save_results_to_csv"}
    /\ UNCHANGED <<files, models, comparison, all_classes, all_relationships,
                   scores, metrics, best_model, idx>>

\* line 156
SaveResultsToCsv == SaveResults("save")

\* a caller hands the scorer's output straight to save_results_to_csv
CallSaveResultsToCsv == idx = 0 /\ SaveResults("best")

Next ==
    \/ AddModel
    \/ CompareModels
    \/ EvaluateModels
    \/ BestModel
    \/ SaveResultsToCsv
    \/ CallSaveResultsToCsv

Spec == Init /\ [][Next]_vars

NextMain ==
    \/ LoadNext
    \/ CompareModels
    \/ EvaluateModels
    \/ BestModel
    \/ SaveResultsToCsv

SpecMain == InitMain /\ [][NextMain]_vars

\* ============================================================= properties
\* the facts of one kind asserted by any model of the registry
UnionOf(reg, field) == UNION {reg[i][field] : i \in 1..Len(reg)}

\* the names of the models asserting a fact, in registry order
Holders(reg, field, fact) ==
    LET Has(m) == fact \in m[field]
        s == SelectSeq(reg, Has)
    IN [i \in 1..Len(s) |-> s[i].name]

RegistryNames == {models[i].name : i \in 1..Len(models)}

In01(a) == a.d > 0 /\ 0 <= a.n /\ a.n <= a.d

IsOne(a) == a.n = a.d

Evaluated == "evaluate_models" \in called

PresenceSound(presence, field, all_facts) ==
    /\ DOMAIN presence = all_facts
    /\ \A k \in DOMAIN presence :
          /\ Len(presence[k]) >= 1
          /\ Range(presence[k]) \subseteq RegistryNames
          /\ \E i \in 1..Len(models) : k \in models[i][field]
    /\ \A f \in UnionOf(models, field) :
          f \in DOMAIN presence /\ presence[f] # <<>>

\* C1: after compare_models the keys of each presence map are exactly the
\* facts of the union, every key is a fact some model asserts, and every
\* fact of the union has a non-empty list of model names.
C1_PresenceKeys ==
    pc = "evaluate" =>
        /\ PresenceSound(comparison.classes, "classes", all_classes)
        /\ PresenceSound(comparison.relationships, "relationships",
                         all_relationships)

C1_Witness ==
    /\ pc = "evaluate"
    /\ Len(models) >= 2
    /\ \E c \in DOMAIN comparison.classes : Len(comparison.classes[c]) = 1
    /\ \E c \in DOMAIN comparison.classes : Len(comparison.classes[c]) >= 2
    /\ DOMAIN comparison.relationships # {}
    /\ \E i \in 1..Len(models) : models[i].classes = {}

PresenceExact(presence, field, all_facts) ==
    \A f \in all_facts :
        f \in DOMAIN presence /\ presence[f] = Holders(models, field, f)

\* C2: the presence list of every fact of the union is the list of exactly
\* the models asserting it, each once, in registry order.
C2_PresenceLists ==
    pc = "evaluate" =>
        /\ PresenceExact(comparison.classes, "classes", all_classes)
        /\ PresenceExact(comparison.relationships, "relationships",
                         all_relationships)

C2_Witness ==
    /\ pc = "evaluate"
    /\ Len(models) = 3
    /\ \E c \in all_classes :
          comparison.classes[c] = <<models[1].name, models[3].name>>
    /\ \E r \in all_relationships :
          comparison.relationships[r] = <<models[2].name, models[3].name>>

\* C3 (as claimed): recall_classes lies in [0,1] and is 1 exactly when the
\* model's classes are all the classes, the empty case included.
C3_Original ==
    Evaluated /\ error = "none" =>
        \A i \in 1..Len(metrics) :
            /\ In01(metrics[i].recall_classes)
            /\ IsOne(metrics[i].recall_classes) <=>
                  (models[i].classes = all_classes)

\* C3 (amended): recall_classes lies in [0,1] and is 1 exactly when the
\* model's classes are all the classes and there is at least one class;
\* when no model has a class it is 0.
C3_RecallClasses ==
    Evaluated =>
        /\ Len(metrics) = Len(models)
        /\ \A i \in 1..Len(metrics) :
            /\ In01(metrics[i].recall_classes)
            /\ IsOne(metrics[i].recall_classes) <=>
                  (models[i].classes = all_classes /\ all_classes # {})
            /\ all_classes = {} => metrics[i].recall_classes.n = 0

C3_Witness ==
    /\ Evaluated
    /\ Len(metrics) >= 2
    /\ \E i \in 1..Len(metrics) :
          IsOne(metrics[i].recall_classes) /\ Cardinality(models[i].classes) = 2
    /\ \E i \in 1..Len(metrics) :
          ~IsOne(metrics[i].recall_classes) /\ models[i].classes # {}

\* the classes of model i that some other model of the registry asserts too
CorroboratedClasses(i) ==
    {c \in models[i].classes :
        \E j \in 1..Len(models) : j # i /\ c \in models[j].classes}

\* C4: precision_classes is the number of the model's classes that another
\* model asserts too, over the number of its classes, and 0 when it has none.
C4_PrecisionClasses ==
    Evaluated =>
        /\ Len(metrics) = Len(models)
        /\ \A i \in 1..Len(metrics) :
            LET p == metrics[i].precision_classes IN
            IF models[i].classes = {} THEN p.n = 0 /\ p.d > 0
            ELSE /\ p.d > 0
                 /\ p.n * Cardinality(models[i].classes)
                        = Cardinality(CorroboratedClasses(i)) * p.d

C4_Witness ==
    /\ Evaluated
    /\ \E i \in 1..Len(metrics) :
          /\ Cardinality(CorroboratedClasses(i)) = 1
          /\ Cardinality(models[i].classes) = 2
          /\ metrics[i].precision_classes = [n |-> 1, d |-> 2]
    /\ \E i \in 1..Len(metrics) : models[i].classes = {}

MetricsIn01(m) ==
    /\ In01(m.recall_classes)
    /\ In01(m.precision_classes)
    /\ In01(m.recall_relationships)
    /\ In01(m.precision_relationships)
    /\ In01(m.overlap_score)
    /\ In01(m.total_score)

\* C5: evaluate_models on compare_models' output raises nothing and every
\* one of the six metrics of every model lies in [0,1].
C5_MetricsInRange ==
    Evaluated =>
        /\ error # "ZeroDivisionError"
        /\ Len(metrics) = Len(models)
        /\ Len(scores) = Len(models)
        /\ \A i \in 1..Len(metrics) : MetricsIn01(metrics[i])

C5_Witness ==
    /\ pc = "best"
    /\ \E i \in 1..Len(models) :
          models[i].classes = {} /\ models[i].relationships = {}
    /\ \E i \in 1..Len(models) :
          models[i].classes = {} /\ models[i].relationships # {}
    /\ \E i \in 1..Len(models) :
          models[i].classes # {} /\ models[i].relationships = {}

\* precision_classes of model i when the registry reg is compared and scored
PrecisionClassesIn(reg, i) ==
    LET c == compare_models(reg)
        e == evaluate_models(reg, c.all_classes, c.all_relationships, c.comparison)
    IN e.metrics[i].precision_classes

\* C6: adding a model under a fresh name whose classes are a subset of an
\* existing model's classes does not decrease that model's precision_classes.
C6_PrecisionMonotone ==
    [][(pc = "compare" /\ Len(models') = Len(models) + 1) =>
          \A i \in 1..Len(models) :
              models'[Len(models')].classes \subseteq models[i].classes =>
                  FracLeq(PrecisionClassesIn(models, i),
                          PrecisionClassesIn(models', i))]_vars

C6_Witness ==
    /\ pc = "compare"
    /\ Len(models) = 3
    /\ \E i \in 1..2 :
          /\ models[3].classes \subseteq models[i].classes
          /\ models[3].classes # {}
          /\ FracLess(Zero, PrecisionClassesIn(SubSeq(models, 1, 2), i))
          /\ FracLess(PrecisionClassesIn(SubSeq(models, 1, 2), i),
                      PrecisionClassesIn(models, i))

\* name is the first model, in registry order, whose total_score is maximal
FirstMaximal(name) ==
    \E i \in 1..Len(metrics) :
        /\ metrics[i].name = name
        /\ models[i].name = name
        /\ \A j \in 1..Len(metrics) :
              FracLeq(metrics[j].total_score, metrics[i].total_score)
        /\ \A j \in 1..(i - 1) :
              FracLess(metrics[j].total_score, metrics[i].total_score)

\* C7: on a non-empty registry the best model, as looked up by the main
\* procedure and as written to the report, has a maximal total_score and is
\* the first such model in registry order.
C7_BestModel ==
    Len(models) >= 1 =>
        /\ pc = "save" => FirstMaximal(best_model)
        /\ "save_results_to_csv" \in called =>
              csv.status = "complete" /\ FirstMaximal(csv.best)

C7_Witness ==
    /\ pc = "save"
    /\ Len(models) = 3
    /\ models[2].classes = models[3].classes
    /\ models[2].relationships = models[3].relationships
    /\ best_model = models[2].name
    /\ FracLess(metrics[1].total_score, metrics[2].total_score)

\* C8: on an empty registry the unions, the presence maps and the scores are
\* empty, nothing is raised up to the scoring, and the best-model lookup
\* signals NoModelsError instead of crashing.
C8_EmptyRegistry ==
    (Len(models) = 0 /\ "compare_models" \in called) =>
        /\ all_classes = {} /\ all_relationships = {}
        /\ DOMAIN comparison.classes = {} /\ DOMAIN comparison.relationships = {}
        /\ scores = <<>>
        /\ pc \in {"evaluate", "best"} => error = "none"
        /\ pc \notin {"evaluate", "best"} => error = "NoModelsError" /\ pc # "crash"

\* the file configured for a model name
FileOf(name) ==
    files[(CHOOSE fp \in Range(file_paths) : fp.name = name).path]

LoadFailure == \E p \in Paths : ~WellFormed(files[p])

\* the Fact Set a well-formed file describes
FileClasses(f) == IF f.data.has_classes THEN Range(f.data.classes) ELSE {}
FileRelationships(f) ==
    IF f.data.has_relationships
    THEN {<<e.from, e.to, e.label>> : e \in Range(f.data.relationships)}
    ELSE {}

\* C9: when a configured file is missing or has a relationship entry without
\* from, to or label, compare_models is never called and no report is
\* written; every model of the registry is the complete content of a
\* well-formed file.
C9_LoadErrorsFatal ==
    /\ LoadFailure =>
          /\ pc \in {"load", "exit", "crash"}
          /\ called \subseteq {"load_model_from_json"}
          /\ csv.status = "none"
    /\ \A i \in 1..Len(models) :
          LET f == FileOf(models[i].name) IN
          /\ WellFormed(f)
          /\ models[i].classes = FileClasses(f)
          /\ models[i].relationships = FileRelationships(f)

C9_Witness ==
    /\ pc = "crash"
    /\ error = "KeyError"
    /\ Len(models) = 2
    /\ LET rl == files[file_paths[3].path].data.relationships IN
          /\ Len(rl) = 2
          /\ RelKeys \subseteq rl[1].keys
          /\ "to" \notin rl[2].keys
    /\ ~files[file_paths[3].path].data.has_classes

\* C10: evaluate_models, called on compare_models' output, leaves the two
\* presence maps (keys and lists) and the registry as they were.
C10_EvaluateFrame ==
    [][pc = "evaluate" => comparison' = comparison /\ models' = models]_vars

C10_Witness ==
    /\ pc = "best"
    /\ Len(models) >= 2
    /\ Cardinality(DOMAIN comparison.classes) = 2
    /\ DOMAIN comparison.relationships # {}
    /\ \E c \in DOMAIN comparison.classes : comparison.classes[c] = <<models[1].name>>

====
